---- MODULE Spec2Model ----
(***************************************************************************)
(* A model of the answer-agreement analysis of src/aa/aa.py: the column    *)
(* masking functions create_mask and refine_mask, the per-question voting  *)
(* function GroupAgreement.analyze_answer_votes, and the construction of   *)
(* GroupAgreement and DatasetAgreement objects.                            *)
(*                                                                         *)
(* Python's None and a null (NaN) cell are the empty tuple, a present      *)
(* value v is the one-element tuple <<v>>.  A quotient a / b is kept as    *)
(* the pair <<a, b>>; the pair <<0, 0>> is the NaN that the mean of an     *)
(* empty selection yields.                                                 *)
(***************************************************************************)
EXTENDS Integers, Sequences, FiniteSets, TLC

VARIABLES pc, columns, rows, column_mask, mask_first, mask_last, mask,
          series, result, group_column, data, unaccounted, raised,
          group_key, stdout, survey, odk_sep

vars == <<pc, columns, rows, column_mask, mask_first, mask_last, mask,
          series, result, group_column, data, unaccounted, raised,
          group_key, stdout, survey, odk_sep>>

(***************************************************************************)
(* Bounds of the model.                                                    *)
(***************************************************************************)
\* number of columns of the dataframe handed to the masking functions
NumCols == 4
\* longest explicit column_mask handed to refine_mask
MaxMask == 3
\* largest group size handed to analyze_answer_votes
MaxVotes == 5
\* number of distinct non-null answers of a question
NumAnswers == 3
\* largest number of rows of the dataframe handed to DatasetAgreement
MaxRows == 3
\* largest number of rows of the survey sheet of an XlsForm
MaxSurvey == 4

None == <<>>
Some(x) == <<x>>
NaN == None

Range(s) == {s[i] : i \in 1..Len(s)}
SeqsUpTo(S, n) == UNION {[1..k -> S] : k \in 0..n}

\* the position of a label in a sequence of unique labels, 0 when absent
IndexOf(s, x) == IF x \in Range(s) THEN CHOOSE i \in 1..Len(s) : s[i] = x ELSE 0

(***************************************************************************)
(* create_mask: the scan of the dataframe's columns with the can_collect   *)
(* flag (lines 355-366).  One call of CreateMaskLoop is one iteration of   *)
(* the for loop.                                                           *)
(***************************************************************************)
RECURSIVE CreateMaskLoop(_, _, _, _, _, _)
CreateMaskLoop(dataframe, i, can_collect, acc, first, last) ==
    IF i > Len(dataframe) THEN acc
    ELSE LET column == dataframe[i]
             collect == IF Some(column) = first THEN TRUE ELSE can_collect
             acc1 == IF collect THEN Append(acc, column) ELSE acc
             collect1 == IF Some(column) = last THEN FALSE ELSE collect
         IN  CreateMaskLoop(dataframe, i + 1, collect1, acc1, first, last)

\* mutant: can_collect starts True whatever mask_first is
create_mask_StartsOpen(dataframe, first, last) ==
    CreateMaskLoop(dataframe, 1, TRUE, <<>>, first, last)

create_mask(dataframe, first, last) ==
    CreateMaskLoop(dataframe, 1, first = None, <<>>, first, last)

\* whether create_mask's scan collects the column at position i
InRangeScan(dataframe, first, last, i) ==
    dataframe[i] \in Range(create_mask(dataframe, first, last))

(***************************************************************************)
(* refine_mask: the same scan, correlated with the candidate list through  *)
(* column_mask_next, the head popped off column_mask_copy (lines 390-408). *)
(* `rest` is column_mask_copy and `next` is column_mask_next.              *)
(***************************************************************************)
RECURSIVE RefineMaskLoop(_, _, _, _, _, _, _, _)
RefineMaskLoop(dataframe, i, can_collect, next, rest, acc, first, last) ==
    IF i > Len(dataframe) THEN acc
    ELSE LET column == dataframe[i]
             collect == IF Some(column) = first THEN TRUE ELSE can_collect
             hit == Some(column) = next
             acc1 == IF hit /\ collect THEN Append(acc, column) ELSE acc
             next1 == IF ~hit THEN next
                      ELSE IF rest # <<>> THEN Some(Head(rest)) ELSE None
             rest1 == IF hit /\ rest # <<>> THEN Tail(rest) ELSE rest
             collect1 == IF Some(column) = last THEN FALSE ELSE collect
         IN  RefineMaskLoop(dataframe, i + 1, collect1, next1, rest1, acc1,
                            first, last)

\* mutant: the candidate pointer advances only on a column that is collected
RECURSIVE RefineMaskLoop_InRangeOnly(_, _, _, _, _, _, _, _)
RefineMaskLoop_InRangeOnly(dataframe, i, can_collect, next, rest, acc, first, last) ==
    IF i > Len(dataframe) THEN acc
    ELSE LET column == dataframe[i]
             collect == IF Some(column) = first THEN TRUE ELSE can_collect
             hit == Some(column) = next /\ collect
             acc1 == IF hit THEN Append(acc, column) ELSE acc
             next1 == IF ~hit THEN next
                      ELSE IF rest # <<>> THEN Some(Head(rest)) ELSE None
             rest1 == IF hit /\ rest # <<>> THEN Tail(rest) ELSE rest
             collect1 == IF Some(column) = last THEN FALSE ELSE collect
         IN  RefineMaskLoop_InRangeOnly(dataframe, i + 1, collect1, next1, rest1,
                                        acc1, first, last)

refine_mask_InRangeOnly(dataframe, candidates, first, last) ==
    RefineMaskLoop_InRangeOnly(dataframe, 1, first = None,
                   IF candidates # <<>> THEN Some(Head(candidates)) ELSE None,
                   IF candidates # <<>> THEN Tail(candidates) ELSE <<>>,
                   <<>>, first, last)

\* mutant: the mask emitted in the order of the candidate list
refine_mask_CandidateOrder(dataframe, candidates, first, last) ==
    SelectSeq(candidates,
              LAMBDA c : \E i \in 1..Len(dataframe) :
                             dataframe[i] = c /\ InRangeScan(dataframe, first, last, i))

refine_mask(dataframe, candidates, first, last) ==
    RefineMaskLoop(dataframe, 1, first = None,
                   IF candidates # <<>> THEN Some(Head(candidates)) ELSE None,
                   IF candidates # <<>> THEN Tail(candidates) ELSE <<>>,
                   <<>>, first, last)

(***************************************************************************)
(* The masking specification: DatasetAgreement.from_file's choice between  *)
(* create_mask and refine_mask (lines 195-198) on a dataframe with the     *)
(* columns 1..NumCols; the label NumCols + 1 is no column of it.           *)
(***************************************************************************)
Labels == 1..(NumCols + 1)
DataColumns == [i \in 1..NumCols |-> i]

InitMask ==
    /\ pc = "start"
    /\ columns = DataColumns
    /\ rows = <<>>
    /\ column_mask \in {None} \cup {Some(c) : c \in SeqsUpTo(Labels, MaxMask)}
    /\ mask_first \in {None} \cup {Some(l) : l \in Labels}
    /\ mask_last \in {None} \cup {Some(l) : l \in Labels}
    /\ mask = <<>>
    /\ series = <<>>
    /\ result = None
    /\ group_column = None
    /\ data = <<>>
    /\ unaccounted = None
    /\ raised = None
    /\ group_key = None
    /\ stdout = <<>>
    /\ survey = <<>>
    /\ odk_sep = None

CreateMask ==
    /\ pc = "start"
    /\ column_mask = None
    /\ mask' = create_mask(columns, mask_first, mask_last)
    /\ pc' = "masked"
    /\ UNCHANGED <<columns, rows, column_mask, mask_first, mask_last, series,
                   result, group_column, data, unaccounted, raised,
                   group_key, stdout, survey, odk_sep>>

RefineMask ==
    /\ pc = "start"
    /\ column_mask # None
    /\ mask' = refine_mask(columns, column_mask[1], mask_first, mask_last)
    /\ pc' = "masked"
    /\ UNCHANGED <<columns, rows, column_mask, mask_first, mask_last, series,
                   result, group_column, data, unaccounted, raised,
                   group_key, stdout, survey, odk_sep>>

NextMask == CreateMask \/ RefineMask

SpecMask == InitMask /\ [][NextMask]_vars

(***************************************************************************)
(* Statements about the masks.                                             *)
(***************************************************************************)
\* the explicit candidate list handed to refine_mask, as a set of labels
Candidates == IF column_mask = None THEN Labels ELSE Range(column_mask[1])

\* The "in range" flag at position i of the scan, stated without the scan:
\* the range has opened (no first, or first at or before i) and has not been
\* closed by last at an earlier position that is not before the opening.
InRangeAt(dataframe, first, last, i) ==
    LET opened == first = None \/ \E j \in 1..i : dataframe[j] = first[1]
        openPos == IF first = None THEN 0 ELSE IndexOf(dataframe, first[1])
        closed == /\ last # None
                  /\ \E j \in 1..(i - 1) : dataframe[j] = last[1] /\ j >= openPos
    IN  opened /\ ~closed

Given(label) == label # None
IsColumn(label) == label # None /\ label[1] \in Range(columns)

\* C1: the mask contains a column exactly when the in-range flag is true at
\* its position and its label is a member of the candidates (every column is
\* a candidate when create_mask builds the mask).
C1_MaskIsRangeAndMembership ==
    pc = "masked" =>
        \A i \in 1..Len(columns) :
            (columns[i] \in Range(mask)) <=>
                (/\ InRangeAt(columns, mask_first, mask_last, i)
                 /\ columns[i] \in Candidates)

\* C2 as stated: a mask_first or mask_last that is given but is no column of
\* the dataframe makes the mask building raise a LookupError.
C2_BoundaryLookupError ==
    (/\ pc = "masked"
     /\ \/ Given(mask_first) /\ ~IsColumn(mask_first)
        \/ Given(mask_last) /\ ~IsColumn(mask_last))
        => raised = Some("LookupError")

\* C2 amended: the mask building raises nothing and returns a mask; with a
\* mask_first that is no column the mask is empty, and with a mask_last that
\* is no column the mask is the one built with no mask_last at all.
C2_UnknownBoundaryReturnsMask ==
    pc = "masked" =>
        /\ raised = None
        /\ (Given(mask_first) /\ ~IsColumn(mask_first)) => mask = <<>>
        /\ (Given(mask_last) /\ ~IsColumn(mask_last)) =>
               mask = IF column_mask = None
                      THEN create_mask(columns, mask_first, None)
                      ELSE refine_mask(columns, column_mask[1], mask_first, None)

C2_Witness ==
    /\ pc = "masked"
    /\ Given(mask_first) /\ ~IsColumn(mask_first)
    /\ column_mask # None /\ Range(column_mask[1]) \cap Range(columns) # {}
    /\ mask = <<>>

\* C3: every column of the mask lies at a position between the position of
\* first (the first column when absent) and the position of last (the last
\* column when absent), both inclusive, whatever their relative position.
C3_MaskBetweenFirstAndLast ==
    (/\ pc = "masked"
     /\ ~Given(mask_first) \/ IsColumn(mask_first)
     /\ ~Given(mask_last) \/ IsColumn(mask_last))
        => LET lo == IF Given(mask_first)
                     THEN IndexOf(columns, mask_first[1]) ELSE 1
               hi == IF Given(mask_last)
                     THEN IndexOf(columns, mask_last[1]) ELSE Len(columns)
           IN  \A k \in 1..Len(mask) :
                   /\ IndexOf(columns, mask[k]) >= lo
                   /\ IndexOf(columns, mask[k]) <= hi

\* C4: the mask is a subsequence of the dataframe's columns: every label is
\* a column, and the labels appear in strictly increasing column position
\* (so none is repeated or reordered).
C4_MaskIsSubsequence ==
    pc = "masked" =>
        /\ \A k \in 1..Len(mask) : mask[k] \in Range(columns)
        /\ \A k \in 1..Len(mask) : \A l \in 1..Len(mask) :
               k < l => IndexOf(columns, mask[k]) < IndexOf(columns, mask[l])

C4_Witness ==
    /\ pc = "masked"
    /\ column_mask # None
    /\ \E k \in 1..Len(column_mask[1]) : \E l \in 1..Len(column_mask[1]) :
           k < l /\ column_mask[1][k] > column_mask[1][l]
    /\ Len(mask) >= 2

(***************************************************************************)
(* GroupAgreement.analyze_answer_votes (lines 493-531).  A series is the   *)
(* sequence of the cells of one question, one per row of the group.        *)
(***************************************************************************)
Answers == 1..NumAnswers
Cells == {NaN} \cup {Some(a) : a \in Answers}

\* the number of rows of the series holding the answer a
Occurrences(s, a) == Cardinality({i \in 1..Len(s) : s[i] = Some(a)})
Answered(s) == {a \in Answers : Occurrences(s, a) > 0}

\* mutant: the value counts sorted by ascending count
ValueCounts_Ascending(s) ==
    LET n == Cardinality(Answered(s))
    IN  {[i \in 1..n |-> [index |-> f[i], count |-> Occurrences(s, f[i])]] :
            f \in {g \in [1..n -> Answered(s)] :
                      /\ \A i \in 1..n : \A j \in 1..n : i # j => g[i] # g[j]
                      /\ \A i \in 1..n : \A j \in 1..n :
                             i < j => Occurrences(s, g[i]) <= Occurrences(s, g[j])}}

\* series.value_counts(): the distinct non-null values with their counts,
\* sorted by descending count.  The order among equal counts is the sort's:
\* every order is a member.
ValueCounts(s) ==
    LET n == Cardinality(Answered(s))
    IN  {[i \in 1..n |-> [index |-> f[i], count |-> Occurrences(s, f[i])]] :
            f \in {g \in [1..n -> Answered(s)] :
                      /\ \A i \in 1..n : \A j \in 1..n : i # j => g[i] # g[j]
                      /\ \A i \in 1..n : \A j \in 1..n :
                             i < j => Occurrences(s, g[i]) >= Occurrences(s, g[j])}}

\* mutant: the number of answered rows, series.count(), in place of len(series)
group_size_Answered(s) == Cardinality({i \in 1..Len(s) : s[i] # NaN})

\* line 498
group_size(s) == Len(s)

\* mutant: all_missing starts False
Defaults_NotMissing ==
    [correct_answer |-> None, all_missing |-> FALSE,
     group_all_correct |-> FALSE, correct_answer_count |-> 0]

\* lines 493-496
Defaults ==
    [correct_answer |-> None, all_missing |-> TRUE,
     group_all_correct |-> FALSE, correct_answer_count |-> 0]

\* mutant: a single distinct answer always counts as agreement
OneAnswerAllCorrect_IgnoresNulls(counts, size) == TRUE

\* line 507
OneAnswerAllCorrect(counts, size) == counts[1].count = size

\* mutant: the tie test compares the top count with the lowest one
TopTwoTied_FirstAndLast(counts) == counts[1].count = counts[Len(counts)].count

\* line 509
TopTwoTied(counts) == counts[1].count = counts[2].count

\* lines 499-531, on the value counts in the order the sort left them
analyze_answer_votes(s, counts) ==
    LET votes ==
            IF counts = <<>> THEN Defaults
            ELSE IF Len(counts) = 1
            THEN [Defaults EXCEPT
                     !.correct_answer = Some(counts[1].index),
                     !.all_missing = FALSE,
                     !.group_all_correct = OneAnswerAllCorrect(counts, group_size(s)),
                     !.correct_answer_count = counts[1].count]
            ELSE IF TopTwoTied(counts)
            THEN [Defaults EXCEPT !.all_missing = FALSE]
            ELSE [Defaults EXCEPT
                     !.correct_answer = Some(counts[1].index),
                     !.all_missing = FALSE,
                     !.correct_answer_count = counts[1].count]
    IN  [correct_answer |-> votes.correct_answer,
         all_missing |-> votes.all_missing,
         group_all_correct |-> votes.group_all_correct,
         correct_answer_count |-> votes.correct_answer_count,
         percent_correct |-> <<votes.correct_answer_count, group_size(s)>>]

(***************************************************************************)
(* The voting specification: analyze_answer_votes applied to every series  *)
(* of up to MaxVotes cells.  On the empty series the division of line 517  *)
(* is 0 / 0 and raises.                                                    *)
(***************************************************************************)
InitVotes ==
    /\ pc = "column"
    /\ series \in SeqsUpTo(Cells, MaxVotes)
    /\ columns = <<>>
    /\ rows = <<>>
    /\ column_mask = None
    /\ mask_first = None
    /\ mask_last = None
    /\ mask = <<>>
    /\ result = None
    /\ group_column = None
    /\ data = <<>>
    /\ unaccounted = None
    /\ raised = None
    /\ group_key = None
    /\ stdout = <<>>
    /\ survey = <<>>
    /\ odk_sep = None

AnalyzeAnswerVotes ==
    /\ pc = "column"
    /\ group_size(series) > 0
    /\ \E counts \in ValueCounts(series) :
           result' = Some(analyze_answer_votes(series, counts))
    /\ pc' = "analyzed"
    /\ UNCHANGED <<columns, rows, column_mask, mask_first, mask_last, mask,
                   series, group_column, data, unaccounted, raised,
                   group_key, stdout, survey, odk_sep>>

AnalyzeEmptySeries ==
    /\ pc = "column"
    /\ group_size(series) = 0
    /\ raised' = Some("ZeroDivisionError")
    /\ pc' = "raised"
    /\ UNCHANGED <<columns, rows, column_mask, mask_first, mask_last, mask,
                   series, result, group_column, data, unaccounted,
                   group_key, stdout, survey, odk_sep>>

NextVotes == AnalyzeAnswerVotes \/ AnalyzeEmptySeries

SpecVotes == InitVotes /\ [][NextVotes]_vars

(***************************************************************************)
(* Statements about analyze_answer_votes.                                  *)
(***************************************************************************)
Analyzed == pc = "analyzed"
votes == result[1]
Nulls(s) == Cardinality({i \in 1..Len(s) : s[i] = NaN})
MaxOccurrences(s) ==
    CHOOSE m \in 0..Len(s) :
        /\ \A a \in Answers : Occurrences(s, a) <= m
        /\ m > 0 => \E a \in Answers : Occurrences(s, a) = m
Winners(s) == {a \in Answered(s) : Occurrences(s, a) = MaxOccurrences(s)}

\* C5: correct_answer_count lies between 0 and the number of rows of the
\* series, nulls included, and percent_correct is correct_answer_count
\* divided by that number of rows.
C5_CountWithinGroupSize ==
    Analyzed =>
        /\ votes.correct_answer_count >= 0
        /\ votes.correct_answer_count <= Len(series)
        /\ votes.percent_correct = <<votes.correct_answer_count, Len(series)>>

C5_Witness ==
    /\ Analyzed
    /\ Nulls(series) > 0
    /\ votes.correct_answer_count > 0
    /\ votes.correct_answer_count + Nulls(series) < Len(series)

\* C6: with exactly one distinct non-null value, that value is the correct
\* answer, all_missing is false, correct_answer_count is its number of
\* occurrences, and group_all_correct is true exactly when no row is null.
C6_SingleAnswer ==
    (Analyzed /\ Cardinality(Answered(series)) = 1) =>
        LET a == CHOOSE a \in Answered(series) : TRUE
        IN  /\ votes.correct_answer = Some(a)
            /\ votes.all_missing = FALSE
            /\ votes.correct_answer_count = Occurrences(series, a)
            /\ votes.group_all_correct = (Occurrences(series, a) = Len(series))
            /\ votes.group_all_correct = (Nulls(series) = 0)

C6_Witness ==
    /\ Analyzed
    /\ Cardinality(Answered(series)) = 1
    /\ Nulls(series) > 0
    /\ Len(series) >= 3
    /\ votes.group_all_correct = FALSE

\* C7: when two or more distinct values share the highest count there is no
\* correct answer (all_missing false, group_all_correct false, count 0,
\* percent 0); a single highest value is never reported as a tie, whatever
\* ties there are below it; and the result is the same for every order the
\* sort may leave equal counts in.
C7_TopTie ==
    Analyzed =>
        /\ Cardinality(Winners(series)) >= 2 =>
               /\ votes.all_missing = FALSE
               /\ votes.correct_answer = None
               /\ votes.group_all_correct = FALSE
               /\ votes.correct_answer_count = 0
               /\ votes.percent_correct = <<0, Len(series)>>
        /\ Cardinality(Winners(series)) = 1 => votes.correct_answer # None
        /\ \A counts \in ValueCounts(series) :
               analyze_answer_votes(series, counts) = votes

C7_Witness ==
    /\ Analyzed
    /\ Cardinality(Winners(series)) = 2
    /\ Cardinality(Answered(series)) = 3
    /\ votes.correct_answer = None

\* C8: a series of nulls only gives all_missing true, no correct answer,
\* group_all_correct false, count 0 and percent 0; a series with a non-null
\* value gives all_missing false.
C8_AllMissing ==
    Analyzed =>
        /\ Answered(series) = {} =>
               /\ votes.all_missing = TRUE
               /\ votes.correct_answer = None
               /\ votes.group_all_correct = FALSE
               /\ votes.correct_answer_count = 0
               /\ votes.percent_correct = <<0, Len(series)>>
        /\ Answered(series) # {} => votes.all_missing = FALSE

C8_Witness ==
    /\ Analyzed
    /\ Len(series) >= 2
    /\ Answered(series) = {}
    /\ votes.all_missing = TRUE

(***************************************************************************)
(* GroupAgreement.__init__ and DatasetAgreement.__init__.                  *)
(*                                                                         *)
(* The dataframe is `columns` (its labels, in order) and `rows` (one       *)
(* function from label to cell per row).  A frame cut out of it (a group,  *)
(* the unaccounted rows) is the sequence of the row positions it keeps,    *)
(* the frame's index; its cells are read from `rows`.                      *)
(***************************************************************************)
\* the ascending sequence of the members of a set of integers
SortedSeq(S) ==
    CHOOSE q \in [1..Cardinality(S) -> S] :
        \A i \in 1..Cardinality(S) : \A j \in 1..Cardinality(S) :
            i < j => q[i] < q[j]

\* dataframe[column], cut to the rows of `index`
ColumnOf(frame, index, column) == [k \in 1..Len(index) |-> frame[index[k]][column]]

\* lines 540-543
masked_dataframe(dataframe_columns, column_mask_arg) ==
    IF column_mask_arg # None THEN column_mask_arg[1] ELSE dataframe_columns

\* analyze_answer_votes on one column; the value counts are in one of the
\* orders the sort can leave them in (the result is the same for each)
AnswerVotes(s) ==
    analyze_answer_votes(s, CHOOSE counts \in ValueCounts(s) : TRUE)

\* lines 453-469: one record per masked column, in mask order
generate_agreement_measures(frame, index, masked) ==
    [k \in 1..Len(masked) |-> AnswerVotes(ColumnOf(frame, index, masked[k]))]

\* lines 447-450: the mean of group_all_correct over the records that are
\* not all_missing, as <<sum, count>>; <<0, 0>> is the NaN of an empty mean
total_agreement(agreement_results) ==
    LET completed_mask == {k \in 1..Len(agreement_results) :
                              ~agreement_results[k].all_missing}
        all_correct == {k \in completed_mask :
                           agreement_results[k].group_all_correct}
    IN  <<Cardinality(all_correct), Cardinality(completed_mask)>>

\* lines 441-450.  DataFrame.apply on a frame with no rows or no columns
\* does not call the function: it returns the empty frame, which has no
\* 'all_missing' column, and line 447 raises KeyError.
GroupAgreementRaises(index, masked) == index = <<>> \/ masked = <<>>

GroupAgreement(frame, index, group_id, dataframe_columns, column_mask_arg) ==
    LET masked == masked_dataframe(dataframe_columns, column_mask_arg)
        agreement_results == generate_agreement_measures(frame, index, masked)
    IN  [dataframe |-> index,
         group_id |-> group_id,
         column_mask |-> column_mask_arg,
         group_size |-> Len(index),
         masked |-> masked,
         agreement_results |-> agreement_results,
         total_agreement |-> total_agreement(agreement_results)]

\* line 146: the distinct non-null values of the group column, ascending
GroupKeys(frame, column) ==
    SortedSeq({frame[i][column][1] : i \in {j \in 1..Len(frame) : frame[j][column] # NaN}})

\* line 147: the rows of one group, in their original order
GroupRows(frame, column, key) ==
    SortedSeq({i \in 1..Len(frame) : frame[i][column] = Some(key)})

\* mutant: the rows that are not null in the group column
unaccounted_NotNull(frame, column) ==
    SortedSeq({i \in 1..Len(frame) : frame[i][column] # NaN})

\* lines 150-151
unaccounted_rows(frame, column) ==
    SortedSeq({i \in 1..Len(frame) : frame[i][column] = NaN})

\* lines 142-149: the (group id, rows) pairs a GroupAgreement is built for
GroupsToBuild(frame, column) ==
    IF column = None
    THEN <<[key |-> None, index |-> [i \in 1..Len(frame) |-> i]]>>
    ELSE LET keys == GroupKeys(frame, column[1])
         IN  [k \in 1..Len(keys) |->
                 [key |-> Some(keys[k]),
                  index |-> GroupRows(frame, column[1], keys[k])]]

(***************************************************************************)
(* The dataset specification: DatasetAgreement.__init__ on a dataframe of  *)
(* 0 to MaxRows rows whose first column holds the group ids, with a       *)
(* column_mask that is None or a mask the masking functions can return (a  *)
(* subsequence of the columns).                                            *)
(***************************************************************************)
DatasetColumns == <<1, 2, 3>>
IdColumn == Head(DatasetColumns)
DatasetCells(column) ==
    IF column = IdColumn THEN {NaN, Some(1), Some(2)} ELSE {NaN, Some(1)}
DatasetRows ==
    {r \in [Range(DatasetColumns) -> Cells] :
        \A c \in Range(DatasetColumns) : r[c] \in DatasetCells(c)}
Masks(cols) ==
    {m \in SeqsUpTo(Range(cols), Len(cols)) :
        \A k \in 1..Len(m) : \A l \in 1..Len(m) :
            k < l => IndexOf(cols, m[k]) < IndexOf(cols, m[l])}

InitDataset ==
    /\ pc = "dataframe"
    /\ columns = DatasetColumns
    /\ rows \in UNION {[1..n -> DatasetRows] : n \in 0..MaxRows}
    /\ group_column \in {None, Some(IdColumn)}
    /\ column_mask \in {None} \cup {Some(m) : m \in Masks(DatasetColumns)}
    /\ mask_first = None
    /\ mask_last = None
    /\ mask = <<>>
    /\ series = <<>>
    /\ result = None
    /\ data = <<>>
    /\ unaccounted = None
    /\ raised = None
    /\ group_key = None
    /\ stdout = <<>>
    /\ survey = <<>>
    /\ odk_sep = None

\* lines 136-151, every GroupAgreement constructed
DatasetAgreementInit ==
    /\ pc = "dataframe"
    /\ LET builds == GroupsToBuild(rows, group_column)
           masked == masked_dataframe(columns, column_mask)
       IN  /\ \A k \in 1..Len(builds) : ~GroupAgreementRaises(builds[k].index, masked)
           /\ data' = [k \in 1..Len(builds) |->
                          GroupAgreement(rows, builds[k].index, builds[k].key,
                                         columns, column_mask)]
    /\ unaccounted' = IF group_column = None THEN None
                      ELSE Some(unaccounted_rows(rows, group_column[1]))
    /\ pc' = "built"
    /\ UNCHANGED <<columns, rows, column_mask, mask_first, mask_last, mask,
                   series, result, group_column, raised,
                   group_key, stdout, survey, odk_sep>>

\* lines 136-149, the first GroupAgreement raising out of the constructor
DatasetAgreementInitRaises ==
    /\ pc = "dataframe"
    /\ LET builds == GroupsToBuild(rows, group_column)
           masked == masked_dataframe(columns, column_mask)
       IN  \E k \in 1..Len(builds) : GroupAgreementRaises(builds[k].index, masked)
    /\ raised' = Some("KeyError")
    /\ pc' = "raised"
    /\ UNCHANGED <<columns, rows, column_mask, mask_first, mask_last, mask,
                   series, result, group_column, data, unaccounted,
                   group_key, stdout, survey, odk_sep>>

\* mutant: the key is ignored and the first group returned
group_IgnoresKey(groups, k) ==
    IF groups # <<>>
    THEN [value |-> Some(groups[1]), raised |-> None]
    ELSE [value |-> None, raised |-> Some("IndexError")]

\* lines 264-266: self._data[0] for no key (IndexError on an empty list),
\* else next() of the generator of the groups whose group_id equals the key
\* (StopIteration when the generator yields nothing)
group(groups, k) ==
    IF k = None
    THEN IF groups # <<>>
         THEN [value |-> Some(groups[1]), raised |-> None]
         ELSE [value |-> None, raised |-> Some("IndexError")]
    ELSE LET hits == {n \in 1..Len(groups) : groups[n].group_id = k}
         IN  IF hits # {}
             THEN [value |-> Some(groups[CHOOSE n \in hits :
                                            \A m \in hits : n <= m]),
                   raised |-> None]
             ELSE [value |-> None, raised |-> Some("StopIteration")]

\* the keys group() is called with: none, the group ids of the dataframe,
\* and a value that is the id of no group
QueryKeys == {None} \cup DatasetCells(IdColumn) \cup {Some(Len(DatasetColumns))}

\* lines 248-266
Group ==
    /\ pc \in {"built", "queried"}
    /\ \E k \in QueryKeys :
           /\ group_key' = k
           /\ result' = group(data, k).value
           /\ raised' = group(data, k).raised
    /\ pc' = "queried"
    /\ UNCHANGED <<columns, rows, column_mask, mask_first, mask_last, mask,
                   series, group_column, data, unaccounted,
                   stdout, survey, odk_sep>>

\* mutant: only the heading line is printed
GroupPrintSummary_HeadingOnly(g) ==
    <<[text |-> "*** Summary for group ", value |-> g.group_id]>>

\* lines 558-561: the two lines GroupAgreement.print_summary prints, each the
\* fixed text of the f-string and the value formatted into it
GroupPrintSummary(g) ==
    <<[text |-> "*** Summary for group ", value |-> g.group_id],
      [text |-> "- Total agreement: ", value |-> g.total_agreement]>>

\* lines 270-271: the groups' summaries in the order of self._data
RECURSIVE DatasetPrintSummary(_)
DatasetPrintSummary(groups) ==
    IF groups = <<>> THEN <<>>
    ELSE GroupPrintSummary(Head(groups)) \o DatasetPrintSummary(Tail(groups))

\* lines 268-271, as cli() calls it on the constructed DatasetAgreement
PrintSummary ==
    /\ pc = "built"
    /\ stdout' = stdout \o DatasetPrintSummary(data)
    /\ pc' = "printed"
    /\ UNCHANGED <<columns, rows, column_mask, mask_first, mask_last, mask,
                   series, result, group_column, data, unaccounted, raised,
                   group_key, survey, odk_sep>>

NextDataset ==
    DatasetAgreementInit \/ DatasetAgreementInitRaises \/ Group \/ PrintSummary

SpecDataset == InitDataset /\ [][NextDataset]_vars

(***************************************************************************)
(* Statements about the groups.                                            *)
(***************************************************************************)
Built == pc = "built"
Constructed == pc \in {"built", "raised"}

\* a row of the group holds an answer to the question
SomeAnswer(g, column) ==
    \E k \in 1..Len(g.dataframe) : rows[g.dataframe[k]][column] # NaN
\* every row of the group holds the same answer to the question
SameAnswer(g, column) ==
    \E a \in Answers :
        \A k \in 1..Len(g.dataframe) : rows[g.dataframe[k]][column] = Some(a)
MaskedColumns == IF column_mask = None THEN Range(columns) ELSE Range(column_mask[1])

\* C9: constructing the groups of a dataframe that has rows raises no error,
\* and each group's total_agreement is the number of masked columns that are not all-missing
\* and have every row agree, divided by the number of masked columns that
\* are not all-missing: NaN (0 / 0) when there is no such column, the empty
\* mask included.
C9_TotalAgreement ==
    (Constructed /\ Len(rows) > 0) =>
        /\ raised = None
        /\ \A n \in 1..Len(data) :
               LET g == data[n]
                   completed == {c \in MaskedColumns : SomeAnswer(g, c)}
                   agreed == {c \in completed : SameAnswer(g, c)}
               IN  g.total_agreement = <<Cardinality(agreed), Cardinality(completed)>>

\* the row positions with a null, and with a non-null, group id
NullRows == {i \in 1..Len(rows) : rows[i][group_column[1]] = NaN}
KeyedRows == {i \in 1..Len(rows) : rows[i][group_column[1]] # NaN}
Increasing(q) == \A k \in 1..Len(q) : \A l \in 1..Len(q) : k < l => q[k] < q[l]

\* C10: with a group column there is one group per distinct non-null group
\* id; each row with a non-null id is in exactly the group of that id, rows
\* in their original order; unaccounted holds exactly the rows with a null
\* id, and none of them is in a group.  With no group column there is one
\* group, with no id, holding every row, and unaccounted stays None.
C10_GroupsPartitionRows ==
    Built =>
        IF group_column # None
        THEN /\ {data[n].group_id : n \in 1..Len(data)} =
                    {rows[i][group_column[1]] : i \in KeyedRows}
             /\ \A n \in 1..Len(data) : \A m \in 1..Len(data) :
                    n # m => data[n].group_id # data[m].group_id
             /\ \A i \in KeyedRows :
                    \A n \in 1..Len(data) :
                        (i \in Range(data[n].dataframe)) <=>
                            (data[n].group_id = rows[i][group_column[1]])
             /\ \A n \in 1..Len(data) :
                    /\ Increasing(data[n].dataframe)
                    /\ Range(data[n].dataframe) \cap NullRows = {}
                    /\ data[n].group_size = Len(data[n].dataframe)
             /\ unaccounted # None
             /\ Range(unaccounted[1]) = NullRows
             /\ Increasing(unaccounted[1])
        ELSE /\ Len(data) = 1
             /\ data[1].group_id = None
             /\ data[1].dataframe = [i \in 1..Len(rows) |-> i]
             /\ unaccounted = None

C10_Witness ==
    /\ Built
    /\ group_column # None
    /\ Len(data) = 1
    /\ data[1].dataframe = <<1, 3>>
    /\ unaccounted = Some(<<2>>)

Queried == pc = "queried"
\* the groups the constructor built from the dataframe
ConstructedGroups ==
    LET builds == GroupsToBuild(rows, group_column)
    IN  [k \in 1..Len(builds) |->
            GroupAgreement(rows, builds[k].index, builds[k].key,
                           columns, column_mask)]
Matching == {n \in 1..Len(data) : data[n].group_id = group_key}

\* C11 as stated, of a dataset with at least one group: group(key) returns
\* the group whose group_id equals key, the first constructed group when key
\* is absent, fails with a KeyError (a LookupError) when key matches no
\* group, and leaves the groups unchanged.
C11_GroupLookupKeyError ==
    (Queried /\ data # <<>>) =>
        /\ data = ConstructedGroups
        /\ group_key = None => result = Some(data[1])
        /\ (group_key # None /\ Matching # {}) =>
               \E n \in Matching : result = Some(data[n])
        /\ (group_key # None /\ Matching = {}) =>
               raised \in {Some("KeyError"), Some("IndexError"), Some("LookupError")}

\* C11 amended: group(key) returns the group whose group_id equals key and
\* the first constructed group when key is absent; it raises StopIteration
\* (no KeyError) when key matches no group, and IndexError when key is
\* absent and no group was constructed; the groups are left unchanged.
C11_GroupLookup ==
    Queried =>
        /\ data = ConstructedGroups
        /\ (group_key = None /\ data # <<>>) =>
               (result = Some(data[1]) /\ raised = None)
        /\ (group_key = None /\ data = <<>>) =>
               (result = None /\ raised = Some("IndexError"))
        /\ (group_key # None /\ Matching # {}) =>
               /\ Cardinality(Matching) = 1
               /\ \E n \in Matching : result = Some(data[n])
               /\ raised = None
        /\ (group_key # None /\ Matching = {}) =>
               (result = None /\ raised = Some("StopIteration"))

C11_Witness ==
    /\ Queried
    /\ Len(data) = 2
    /\ group_key # None
    /\ Matching = {}
    /\ raised = Some("StopIteration")

Printed == pc = "printed"
\* the masked columns of the group that are not all-missing
Comparisons(g) == Cardinality({c \in MaskedColumns : SomeAnswer(g, c)})

\* C12 as stated: every group carries `comparisons`, the number of masked
\* columns that are not all-missing, and print_summary writes the group id,
\* that count and the total agreement for each group.
C12_SummaryWithComparisons ==
    Printed =>
        \A n \in 1..Len(data) :
            /\ "comparisons" \in DOMAIN data[n]
            /\ data[n].comparisons = Comparisons(data[n])
            /\ \E line \in Range(stdout) : line.value = data[n].group_id
            /\ \E line \in Range(stdout) : line.value = data[n].total_agreement
            /\ \E line \in Range(stdout) :
                   /\ line.text \notin {"*** Summary for group ", "- Total agreement: "}
                   /\ line.value = Some(Comparisons(data[n]))

\* C12 amended: a group carries no `comparisons`; print_summary writes two
\* lines per group, in construction order: the group id, then the total
\* agreement (agreed columns over columns that are not all-missing), and no
\* comparison count.
C12_SummaryIdAndAgreement ==
    Printed =>
        /\ Len(stdout) = 2 * Len(data)
        /\ \A n \in 1..Len(data) :
               LET g == data[n]
                   completed == {c \in MaskedColumns : SomeAnswer(g, c)}
                   agreed == {c \in completed : SameAnswer(g, c)}
               IN  /\ "comparisons" \notin DOMAIN g
                   /\ stdout[2 * n - 1] =
                          [text |-> "*** Summary for group ", value |-> g.group_id]
                   /\ stdout[2 * n] =
                          [text |-> "- Total agreement: ",
                           value |-> <<Cardinality(agreed), Cardinality(completed)>>]

C12_Witness ==
    /\ Printed
    /\ Len(data) = 2
    /\ Len(stdout) = 4
    /\ stdout[4].value = <<1, 2>>

(***************************************************************************)
(* filtered_odk_type_name_label (lines 323-336) and is_skipped_odk_type    *)
(* (lines 87-90).  An ODK type is the sequence of its words, the text cut  *)
(* at each space: 'begin group' is <<"begin", "group">> and '' is <<"">>.  *)
(* Names, labels and the separator are strings.                            *)
(***************************************************************************)
\* lines 43-54
SKIPPED_ODK_TYPES ==
    {<<"type">>, <<"calculate">>, <<"note">>, <<"start">>, <<"end">>,
     <<"deviceid">>, <<"simserial">>, <<"phonenumber">>, <<"hidden">>, <<"">>}

\* lines 57-61: 'hidden ', 'begin ', 'end ', each a word and the space after it
SKIPPED_ODK_TYPES_START == {"hidden", "begin", "end"}

\* odk_type.startswith(word + ' ')
StartsWith(odk_type, word) == Len(odk_type) >= 2 /\ odk_type[1] = word

\* lines 87-90
is_skipped_odk_type(odk_type) ==
    LET skipped_type == \E i \in SKIPPED_ODK_TYPES : i = odk_type
        skipped_type_start ==
            \E i \in SKIPPED_ODK_TYPES_START : StartsWith(odk_type, i)
    IN  skipped_type \/ skipped_type_start

\* odk_sep.join(segments), for at least one segment
RECURSIVE Join(_, _)
Join(sep, segments) ==
    IF Len(segments) = 1 THEN segments[1]
    ELSE segments[1] \o sep \o Join(sep, Tail(segments))

\* mutant: the row's own name ahead of its ancestors
all_segments_NameFirst(parent_segments, name) == <<name>> \o parent_segments

\* line 332
all_segments(parent_segments, name) == parent_segments \o <<name>>

\* lines 326-335, from row i on; pop() of the empty list raises IndexError
RECURSIVE FilterLoop(_, _, _, _, _)
FilterLoop(iterator, i, parent_segments, filtered, sep) ==
    IF i > Len(iterator) THEN [filtered |-> filtered, raised |-> None]
    ELSE LET odk_type == iterator[i].type
             name == iterator[i].name
             label == iterator[i].label
         IN  IF odk_type \in {<<"begin", "group">>, <<"begin", "repeat">>}
             THEN FilterLoop(iterator, i + 1, Append(parent_segments, name),
                             filtered, sep)
             ELSE IF odk_type \in {<<"end", "group">>, <<"end", "repeat">>}
             THEN IF parent_segments = <<>>
                  THEN [filtered |-> filtered, raised |-> Some("IndexError")]
                  ELSE FilterLoop(iterator, i + 1,
                                  SubSeq(parent_segments, 1, Len(parent_segments) - 1),
                                  filtered, sep)
             ELSE IF ~is_skipped_odk_type(odk_type)
             THEN LET new_name == Join(sep, all_segments(parent_segments, name))
                      this_record == <<odk_type, new_name, label>>
                  IN  FilterLoop(iterator, i + 1, parent_segments,
                                 Append(filtered, this_record), sep)
             ELSE FilterLoop(iterator, i + 1, parent_segments, filtered, sep)

\* lines 323-336
filtered_odk_type_name_label(iterator, sep) ==
    FilterLoop(iterator, 1, <<>>, <<>>, sep)

(***************************************************************************)
(* The form specification: filtered_odk_type_name_label on every survey    *)
(* sheet of up to MaxSurvey rows, with either separator.                   *)
(***************************************************************************)
OdkRows ==
    {[type |-> t, name |-> n, label |-> "Q"] :
        t \in {<<"begin", "group">>, <<"begin", "repeat">>, <<"text">>},
        n \in {"a", "b"}}
    \cup {[type |-> t, name |-> "", label |-> ""] :
             t \in {<<"end", "group">>, <<"end", "repeat">>}}
    \cup {[type |-> t, name |-> "n", label |-> "N"] :
             t \in {<<"note">>, <<"hidden", "value">>, <<"begin", "screen">>}}

InitOdk ==
    /\ pc = "form"
    /\ survey \in SeqsUpTo(OdkRows, MaxSurvey)
    /\ odk_sep \in {Some(":"), Some("-")}
    /\ columns = <<>>
    /\ rows = <<>>
    /\ column_mask = None
    /\ mask_first = None
    /\ mask_last = None
    /\ mask = <<>>
    /\ series = <<>>
    /\ result = None
    /\ group_column = None
    /\ data = <<>>
    /\ unaccounted = None
    /\ raised = None
    /\ group_key = None
    /\ stdout = <<>>

FilteredOdk ==
    /\ pc = "form"
    /\ LET out == filtered_odk_type_name_label(survey, odk_sep[1])
       IN  /\ out.raised = None
           /\ result' = Some(out.filtered)
    /\ pc' = "filtered"
    /\ UNCHANGED <<columns, rows, column_mask, mask_first, mask_last, mask,
                   series, group_column, data, unaccounted, raised,
                   group_key, stdout, survey, odk_sep>>

FilteredOdkRaises ==
    /\ pc = "form"
    /\ LET out == filtered_odk_type_name_label(survey, odk_sep[1])
       IN  /\ out.raised # None
           /\ raised' = out.raised
    /\ pc' = "raised"
    /\ UNCHANGED <<columns, rows, column_mask, mask_first, mask_last, mask,
                   series, result, group_column, data, unaccounted,
                   group_key, stdout, survey, odk_sep>>

NextOdk == FilteredOdk \/ FilteredOdkRaises

SpecOdk == InitOdk /\ [][NextOdk]_vars

(***************************************************************************)
(* Statements about the form rows.                                         *)
(***************************************************************************)
Opens(i) == survey[i].type \in {<<"begin", "group">>, <<"begin", "repeat">>}
Closes(i) == survey[i].type \in {<<"end", "group">>, <<"end", "repeat">>}
\* the row is skipped: its type is on the skip list or starts with one of
\* 'hidden ', 'begin ', 'end '
Skipped(i) ==
    \/ survey[i].type \in SKIPPED_ODK_TYPES
    \/ Len(survey[i].type) >= 2 /\ survey[i].type[1] \in {"hidden", "begin", "end"}
Emits(i) == ~Opens(i) /\ ~Closes(i) /\ ~Skipped(i)

\* the group or repeat opened at row j is still open at row i: no row
\* between them closes more than was opened after j
OpenAt(j, i) ==
    /\ j < i
    /\ Opens(j)
    /\ \A k \in (j + 1)..(i - 1) :
           Cardinality({c \in (j + 1)..k : Closes(c)}) <=
               Cardinality({o \in (j + 1)..k : Opens(o)})

\* the names of the ancestors open at row i, outermost first
Ancestors(i) ==
    LET open == SortedSeq({j \in 1..Len(survey) : OpenAt(j, i)})
    IN  [k \in 1..Len(open) |-> survey[open[k]].name]

\* C13: the list returned holds, in row order, one record per row that is
\* neither a begin/end group/repeat row nor skipped: its type, the names of
\* the ancestors open at that row, outermost first, and its own name, joined
\* by the separator, and its label; every other row adds nothing.
C13_QualifiedNames ==
    pc = "filtered" =>
        LET emitting == SortedSeq({i \in 1..Len(survey) : Emits(i)})
        IN  result = Some([k \in 1..Len(emitting) |->
                <<survey[emitting[k]].type,
                  Join(odk_sep[1],
                       Ancestors(emitting[k]) \o <<survey[emitting[k]].name>>),
                  survey[emitting[k]].label>>])

C13_Witness ==
    /\ pc = "filtered"
    /\ odk_sep = Some(":")
    /\ Len(survey) = 4
    /\ survey[2].type = <<"begin", "screen">>
    /\ result = Some(<<<< <<"text">>, "a:b:a", "Q">>>>)

(***************************************************************************)
(* Further statements about analyze_answer_votes and refine_mask.          *)
(***************************************************************************)
\* C14: with two or more distinct non-null values group_all_correct is
\* false; when one of them occurs strictly more often than every other it
\* is the correct answer, correct_answer_count is its number of occurrences,
\* below the group size, and all_missing is false.
C14_StrictPlurality ==
    (Analyzed /\ Cardinality(Answered(series)) >= 2) =>
        /\ votes.group_all_correct = FALSE
        /\ Cardinality(Winners(series)) = 1 =>
               LET w == CHOOSE a \in Winners(series) : TRUE
               IN  /\ votes.correct_answer = Some(w)
                   /\ votes.correct_answer_count = Occurrences(series, w)
                   /\ votes.correct_answer_count < Len(series)
                   /\ votes.all_missing = FALSE

C14_Witness ==
    /\ Analyzed
    /\ Cardinality(Answered(series)) = 3
    /\ Cardinality(Winners(series)) = 1
    /\ Nulls(series) = 0
    /\ votes.correct_answer_count = 2

\* the candidate list has no duplicates, names dataset columns only, and is
\* in the relative order of the dataset's columns
CandidatesInColumnOrder ==
    /\ column_mask # None
    /\ \A k \in 1..Len(column_mask[1]) : column_mask[1][k] \in Range(columns)
    /\ \A k \in 1..Len(column_mask[1]) : \A l \in 1..Len(column_mask[1]) :
           k < l => IndexOf(columns, column_mask[1][k]) <
                        IndexOf(columns, column_mask[1][l])

\* C15: for such a candidate list refine_mask returns the columns, in dataset
\* order, that are in range and members of the candidate list, as filtering
\* by set membership does; a candidate ahead of mask_first is passed over
\* and does not keep the later candidates out.
C15_MergeIsMembership ==
    (pc = "masked" /\ CandidatesInColumnOrder) =>
        LET kept == SortedSeq({i \in 1..Len(columns) :
                        /\ InRangeAt(columns, mask_first, mask_last, i)
                        /\ columns[i] \in Range(column_mask[1])})
        IN  mask = [k \in 1..Len(kept) |-> columns[kept[k]]]

C15_Witness ==
    /\ pc = "masked"
    /\ CandidatesInColumnOrder
    /\ IsColumn(mask_first)
    /\ Len(column_mask[1]) = 3
    /\ IndexOf(columns, column_mask[1][1]) < IndexOf(columns, mask_first[1])
    /\ Len(mask) = 2

====
